---- MODULE Spec2Model ----
(***************************************************************************)
(* A model of ingparser.py: the three layout extractors                    *)
(* (parse_ing_kontoauszug, parse_ing_depotauszug, parse_ing_abrechnung)    *)
(* and the command-line program that routes files to them.                 *)
(*                                                                         *)
(* Text is modelled as TLA+ strings, a character being a string of length  *)
(* one.  A Python float is modelled as the IEEE-754 double it is: a sign,  *)
(* a 53-bit mantissa and a binary exponent; the mantissa is an unbounded   *)
(* natural number kept as a little-endian sequence of base-10000 limbs.    *)
(***************************************************************************)
EXTENDS Integers, Sequences, FiniteSets, TLC

VARIABLES
    lines,      \* extractor: the text lines of the document being parsed
    lineNo,     \* extractor: index of the next line to scan
    results,    \* extractor: the dict of per-field lists
    pc,         \* extractor: "idle", "scan", "frame", "returned", "raised"
    data,       \* extractor: the DataFrame returned
    exc,        \* extractor: the exception raised, "" if none
    path,       \* program: the INPUT argument, a record describing the path
    account,    \* program: the --account argument
    mpc,        \* program: position in the __main__ block
    entry,      \* program: index of the next directory entry
    df,         \* program: the variable df
    called,     \* program: the extractor calls made so far, in order
    stdout,     \* program: the messages printed so far
    stderr,     \* program: the messages printed to stderr so far
    csv,        \* program: the rows written to the output file, or NoFile
    status      \* program: "running", "exit0", "exit1" or the exception name

vars == <<lines, lineNo, results, pc, data, exc, path, account, mpc, entry, df, called,
          stdout, stderr, csv, status>>

extractorVars == <<lines, lineNo, results, pc, data, exc>>
programVars == <<path, account, mpc, entry, df, called, stdout, stderr, csv, status>>

-----------------------------------------------------------------------------
(* Characters and strings                                                  *)

Ch(s, p) == IF p >= 1 /\ p <= Len(s) THEN SubSeq(s, p, p) ELSE ""

\* s[p-1:] in Python terms: the suffix starting at 1-based position p
From(s, p) == IF p > Len(s) THEN "" ELSE SubSeq(s, p, Len(s))

\* s[p-1:q] : characters p..q, empty when q < p
Sub(s, p, q) == IF q < p THEN "" ELSE SubSeq(s, p, q)

DigitChars == {"0", "1", "2", "3", "4", "5", "6", "7", "8", "9"}

IsDigit(c) == c \in DigitChars

DigitVal(c) ==
    CASE c = "0" -> 0 [] c = "1" -> 1 [] c = "2" -> 2 [] c = "3" -> 3
      [] c = "4" -> 4 [] c = "5" -> 5 [] c = "6" -> 6 [] c = "7" -> 7
      [] c = "8" -> 8 [] c = "9" -> 9

\* \s of the re module, restricted to the whitespace that can occur in a
\* line (a line holds no "\n": the text was split on it)
IsSpace(c) == c \in {" ", "\t"}

UpperChars == {"A", "B", "C", "D", "E", "F", "G", "H", "I", "J", "K", "L", "M",
               "N", "O", "P", "Q", "R", "S", "T", "U", "V", "W", "X", "Y", "Z"}

LowerChars == {"a", "b", "c", "d", "e", "f", "g", "h", "i", "j", "k", "l", "m",
               "n", "o", "p", "q", "r", "s", "t", "u", "v", "w", "x", "y", "z",
               "ü", "ä", "ö", "ß"}

\* \w of the re module
IsWord(c) == c \in DigitChars \cup UpperChars \cup LowerChars \cup {"_", "Ü", "Ä", "Ö"}

\* \b at the gap before position p (between characters p-1 and p)
Boundary(s, p) == IsWord(Ch(s, p - 1)) # IsWord(Ch(s, p))

AllDigits(s) == \A p \in 1..Len(s) : IsDigit(Ch(s, p))

\* the literal lit occurs in s at position p
LitAt(s, p, lit) ==
    /\ p >= 1
    /\ p + Len(lit) - 1 <= Len(s)
    /\ SubSeq(s, p, p + Len(lit) - 1) = lit

\* number of characters of the maximal run of digits of s that starts at p
RECURSIVE DigitRun(_, _)
DigitRun(s, p) == IF IsDigit(Ch(s, p)) THEN 1 + DigitRun(s, p + 1) ELSE 0

\* number of characters of the maximal run of whitespace that starts at p
RECURSIVE SpaceRun(_, _)
SpaceRun(s, p) == IF IsSpace(Ch(s, p)) THEN 1 + SpaceRun(s, p + 1) ELSE 0

LowerOf(c) ==
    CASE c = "A" -> "a" [] c = "B" -> "b" [] c = "C" -> "c" [] c = "D" -> "d"
      [] c = "E" -> "e" [] c = "F" -> "f" [] c = "G" -> "g" [] c = "H" -> "h"
      [] c = "I" -> "i" [] c = "J" -> "j" [] c = "K" -> "k" [] c = "L" -> "l"
      [] c = "M" -> "m" [] c = "N" -> "n" [] c = "O" -> "o" [] c = "P" -> "p"
      [] c = "Q" -> "q" [] c = "R" -> "r" [] c = "S" -> "s" [] c = "T" -> "t"
      [] c = "U" -> "u" [] c = "V" -> "v" [] c = "W" -> "w" [] c = "X" -> "x"
      [] c = "Y" -> "y" [] c = "Z" -> "z" [] c = "Ü" -> "ü" [] c = "Ä" -> "ä"
      [] c = "Ö" -> "ö" [] OTHER -> c

\* str.lower()
RECURSIVE Lower(_)
Lower(s) == IF s = "" THEN "" ELSE LowerOf(Ch(s, 1)) \o Lower(From(s, 2))

\* the Python expression  needle in s
Contains(s, needle) == \E p \in 1..(Len(s) + 1) : LitAt(s, p, needle)

\* str.replace(old, new) for a one-character old
RECURSIVE Replace(_, _, _)
Replace(s, old, new) ==
    IF s = "" THEN ""
    ELSE (IF Ch(s, 1) = old THEN new ELSE Ch(s, 1)) \o Replace(From(s, 2), old, new)

\* str.strip()
RECURSIVE LStrip(_)
LStrip(s) == IF s # "" /\ IsSpace(Ch(s, 1)) THEN LStrip(From(s, 2)) ELSE s

RECURSIVE RStrip(_)
RStrip(s) ==
    IF s # "" /\ IsSpace(Ch(s, Len(s))) THEN RStrip(Sub(s, 1, Len(s) - 1)) ELSE s

Strip(s) == RStrip(LStrip(s))

\* the least element of a non-empty set of integers
Least(S) == CHOOSE x \in S : \A y \in S : x <= y

-----------------------------------------------------------------------------
(* Unbounded naturals: little-endian sequences of limbs in 0..9999, with   *)
(* no zero limb at the top; zero is the empty sequence.                    *)

RECURSIVE BigNorm(_)
BigNorm(a) ==
    IF a = <<>> THEN a
    ELSE IF a[Len(a)] = 0 THEN BigNorm(SubSeq(a, 1, Len(a) - 1)) ELSE a

\* a * m + c for a small multiplier m and carry c
RECURSIVE BigMulAdd(_, _, _)
BigMulAdd(a, m, c) ==
    IF a = <<>>
    THEN (IF c = 0 THEN <<>> ELSE <<c % 10000>> \o BigMulAdd(<<>>, m, c \div 10000))
    ELSE LET v == a[1] * m + c
         IN  <<v % 10000>> \o BigMulAdd(Tail(a), m, v \div 10000)

BigMul(a, m) == BigNorm(BigMulAdd(a, m, 0))

\* quotient and remainder of a by a small divisor d
RECURSIVE BigDivMod(_, _)
BigDivMod(a, d) ==
    IF a = <<>> THEN [q |-> <<>>, r |-> 0]
    ELSE LET hi == BigDivMod(Tail(a), d)
             v == hi.r * 10000 + a[1]
         IN  [q |-> BigNorm(<<v \div d>> \o hi.q), r |-> v % d]

RECURSIVE BigAddC(_, _, _)
BigAddC(a, b, c) ==
    IF a = <<>> /\ b = <<>> THEN (IF c = 0 THEN <<>> ELSE <<c>>)
    ELSE LET x == IF a = <<>> THEN 0 ELSE a[1]
             y == IF b = <<>> THEN 0 ELSE b[1]
             v == x + y + c
         IN  <<v % 10000>>
               \o BigAddC(IF a = <<>> THEN a ELSE Tail(a),
                          IF b = <<>> THEN b ELSE Tail(b), v \div 10000)

BigAdd(a, b) == BigNorm(BigAddC(a, b, 0))

\* a < b
RECURSIVE BigLess(_, _)
BigLess(a, b) ==
    IF Len(a) # Len(b) THEN Len(a) < Len(b)
    ELSE IF a = <<>> THEN FALSE
    ELSE IF a[Len(a)] # b[Len(b)] THEN a[Len(a)] < b[Len(b)]
    ELSE BigLess(SubSeq(a, 1, Len(a) - 1), SubSeq(b, 1, Len(b) - 1))

BigOdd(a) == a # <<>> /\ a[1] % 2 = 1

\* a * 2^n, twelve binary places at a time
RECURSIVE BigShl(_, _)
BigShl(a, n) ==
    IF n >= 12 THEN BigShl(BigMul(a, 4096), n - 12) ELSE BigMul(a, 2 ^ n)

\* the number a string of decimal digits denotes
RECURSIVE BigOfDigits(_)
BigOfDigits(s) ==
    IF s = "" THEN <<>>
    ELSE BigNorm(BigMulAdd(BigOfDigits(Sub(s, 1, Len(s) - 1)), 10,
                           DigitVal(Ch(s, Len(s)))))

-----------------------------------------------------------------------------
(* float(): the double nearest to a decimal literal (round half to even).  *)
(* A double is [neg, mant, exp], standing for (-1)^neg * mant * 2^exp with *)
(* 2^52 <= mant < 2^53, or mant zero.                                      *)

TwoTo52 == BigShl(<<1>>, 52)

TwoTo53 == BigShl(<<1>>, 53)

\* 10^d
RECURSIVE BigPow10(_)
BigPow10(d) == IF d = 0 THEN <<1>> ELSE BigMul(BigPow10(d - 1), 10)

\* the least s >= 0 with lo <= n * 2^s, for n > 0
RECURSIVE ShiftUp(_, _)
ShiftUp(n, lo) ==
    IF BigLess(BigMul(n, 4096), lo) THEN 12 + ShiftUp(BigMul(n, 4096), lo)
    ELSE IF BigLess(n, lo) THEN 1 + ShiftUp(BigMul(n, 2), lo)
    ELSE 0

\* the least t >= 0 with n < hi * 2^t
RECURSIVE ShiftDown(_, _)
ShiftDown(n, hi) ==
    IF ~BigLess(n, BigMul(hi, 4096)) THEN 12 + ShiftDown(n, BigMul(hi, 4096))
    ELSE IF BigLess(n, hi) THEN 0
    ELSE 1 + ShiftDown(n, BigMul(hi, 2))

\* n / 10^d as [q, top, sticky]: the quotient, the first decimal digit of the
\* fraction and whether a later digit of the fraction is not zero
RECURSIVE DivPow10(_, _)
DivPow10(n, d) ==
    IF d = 0 THEN [q |-> n, top |-> 0, sticky |-> FALSE]
    ELSE LET prev == DivPow10(n, d - 1)
             qr == BigDivMod(prev.q, 10)
         IN  [q |-> qr.q, top |-> qr.r, sticky |-> prev.sticky \/ prev.top # 0]

\* q / 2^t as [q, guard, sticky]: the quotient, the first binary digit of the
\* fraction and whether anything below it is not zero
RECURSIVE DivPow2(_, _, _)
DivPow2(q, t, sticky) ==
    IF t = 0 THEN [q |-> q, guard |-> 0, sticky |-> sticky]
    ELSE LET prev == DivPow2(q, t - 1, sticky)
             qr == BigDivMod(prev.q, 2)
         IN  [q |-> qr.q, guard |-> qr.r, sticky |-> prev.sticky \/ prev.guard = 1]

\* n / (10^d * 2^t) rounded to the nearest integer, ties to the even one
RoundDiv(n, d, t) ==
    LET a == DivPow10(n, d)
        b == DivPow2(a.q, t, a.top # 0 \/ a.sticky)
        up == IF t = 0
              THEN a.top > 5 \/ (a.top = 5 /\ (a.sticky \/ BigOdd(a.q)))
              ELSE b.guard = 1 /\ (b.sticky \/ BigOdd(b.q))
    IN  IF up THEN BigAdd(b.q, <<1>>) ELSE b.q

\* the double nearest to n / 10^d, for a natural number n
NearestDouble(neg, n, d) ==
    IF n = <<>> THEN [neg |-> neg, mant |-> <<>>, exp |-> 0]
    ELSE LET lo52 == BigShl(BigPow10(d), 52)
             hi53 == BigShl(BigPow10(d), 53)
             s == ShiftUp(n, lo52)
             t == ShiftDown(n, hi53)
             m == RoundDiv(BigShl(n, s), d, t)
         IN  IF m = TwoTo53
             THEN [neg |-> neg, mant |-> TwoTo52, exp |-> t - s + 1]
             ELSE [neg |-> neg, mant |-> m, exp |-> t - s]

\* the text after an optional sign
Unsigned(s) == IF Ch(s, 1) \in {"-", "+"} THEN From(s, 2) ELSE s

\* position of the first "." of s, Len(s) + 1 if there is none
DotPos(s) == Least({p \in 1..(Len(s) + 1) : p = Len(s) + 1 \/ Ch(s, p) = "."})

\* the decimal literals float() accepts: [sign] digits [. [digits]] or
\* [sign] . digits, with surrounding whitespace
IsFloatLiteral(s) ==
    LET u == Unsigned(Strip(s))
        dot == DotPos(u)
        ip == Sub(u, 1, dot - 1)
        fp == From(u, dot + 1)
    IN  /\ AllDigits(ip)
        /\ AllDigits(fp)
        /\ Len(ip) + Len(fp) >= 1

\* float(s) for a literal s: ValueError is raised on any other text
PyFloat(s) ==
    LET t == Strip(s)
        u == Unsigned(t)
        dot == DotPos(u)
        ip == Sub(u, 1, dot - 1)
        fp == From(u, dot + 1)
    IN  NearestDouble(Ch(t, 1) = "-", BigOfDigits(ip \o fp), Len(fp))

\* the number a short string of decimal digits denotes
RECURSIVE IntOf(_)
IntOf(s) == IF s = "" THEN 0 ELSE IntOf(Sub(s, 1, Len(s) - 1)) * 10 + DigitVal(Ch(s, Len(s)))

-----------------------------------------------------------------------------
(* pandas: to_datetime(format="%d.%m.%Y") and DataFrame(dict)              *)

\* a regex search that found nothing
NoMatch == [hit |-> FALSE, text |-> ""]

Match(t) == [hit |-> TRUE, text |-> t]

IsLeapYear(y) == (y % 4 = 0 /\ y % 100 # 0) \/ y % 400 = 0

DaysInMonth(y, m) ==
    IF m = 2 THEN (IF IsLeapYear(y) THEN 29 ELSE 28)
    ELSE IF m \in {4, 6, 9, 11} THEN 30 ELSE 31

\* strptime accepts the text dd.mm.yyyy when it names a day of the calendar
IsCalendarDate(s) ==
    /\ Len(s) = 10
    /\ AllDigits(Sub(s, 1, 2)) /\ Ch(s, 3) = "." /\ AllDigits(Sub(s, 4, 5))
    /\ Ch(s, 6) = "." /\ AllDigits(Sub(s, 7, 10))
    /\ IntOf(Sub(s, 7, 10)) >= 1
    /\ IntOf(Sub(s, 4, 5)) \in 1..12
    /\ IntOf(Sub(s, 1, 2)) \in 1..DaysInMonth(IntOf(Sub(s, 7, 10)), IntOf(Sub(s, 4, 5)))

\* the datetime of an accepted text, as the number yyyymmdd
ToDatetime(s) ==
    IntOf(Sub(s, 7, 10)) * 10000 + IntOf(Sub(s, 4, 5)) * 100 + IntOf(Sub(s, 1, 2))

-----------------------------------------------------------------------------
(* parse_ing_kontoauszug                                                   *)

\* \d{1,3}(\.\d{3})* matching all of s
IsGrouped(s) ==
    LET dot == DotPos(s)
        rest == From(s, dot)
    IN  /\ dot - 1 \in 1..3
        /\ AllDigits(Sub(s, 1, dot - 1))
        /\ Len(rest) % 4 = 0
        /\ \A q \in 1..Len(rest) :
              IF q % 4 = 1 THEN Ch(rest, q) = "." ELSE IsDigit(Ch(rest, q))

\* -?(\d{1,3}(\.\d{3})*|\d+),\d{2} matching all of s
IsAmountText(s) ==
    LET u == IF Ch(s, 1) = "-" THEN From(s, 2) ELSE s
        n == Len(u)
        ip == Sub(u, 1, n - 3)
    IN  /\ n >= 4
        /\ Ch(u, n - 2) = ","
        /\ IsDigit(Ch(u, n - 1))
        /\ IsDigit(Ch(u, n))
        /\ (IsGrouped(ip) \/ AllDigits(ip))

\* amount_regex.search(line): the leftmost match, which ends at the line's end
KontoAmountRegex(line) ==
    LET starts == {p \in 1..Len(line) : IsAmountText(From(line, p))}
    IN  IF starts = {} THEN NoMatch ELSE Match(From(line, Least(starts)))

\* date_regex.search(line): a match at the start of the line
KontoDateRegex(line) ==
    LET d == Sub(line, 1, 2)
        m == Sub(line, 4, 5)
    IN  IF /\ Len(line) >= 10
           /\ \/ Ch(d, 1) = "0" /\ IsDigit(Ch(d, 2)) /\ Ch(d, 2) # "0"
              \/ Ch(d, 1) \in {"1", "2"} /\ IsDigit(Ch(d, 2))
              \/ Ch(d, 1) = "3" /\ Ch(d, 2) \in {"0", "1"}
           /\ Ch(line, 3) = "."
           /\ \/ Ch(m, 1) = "0" /\ IsDigit(Ch(m, 2)) /\ Ch(m, 2) # "0"
              \/ Ch(m, 1) = "1" /\ Ch(m, 2) \in {"0", "1", "2"}
           /\ Ch(line, 6) = "."
           /\ Sub(line, 7, 8) \in {"19", "20"}
           /\ IsDigit(Ch(line, 9))
           /\ IsDigit(Ch(line, 10))
        THEN Match(Sub(line, 1, 10))
        ELSE NoMatch

\* line[len(date) : -len(amount)].strip()
KontoDescription(line, date, amount) ==
    Strip(Sub(line, Len(date) + 1, Len(line) - Len(amount)))

\* a slip: the decimal comma is removed like a thousands separator
NormalizeCommaRemoved(t) == Replace(Replace(t, ".", ""), ",", "")

\* amount.replace(".", "").replace(",", ".")
Normalize(t) == Replace(Replace(t, ".", ""), ",", ".")

NoResults == [date |-> <<>>, description |-> <<>>, amount |-> <<>>]

\* the body of the loop over the lines: the lists after the line is scanned
KontoLine(res, line) ==
    LET amount == KontoAmountRegex(line)
        date == KontoDateRegex(line)
    IN  IF amount.hit /\ date.hit
        THEN [date |-> Append(res.date, date.text),
              amount |-> Append(res.amount, PyFloat(Normalize(amount.text))),
              description |-> Append(res.description,
                                     KontoDescription(line, date.text, amount.text))]
        ELSE res

\* pd.DataFrame(results) with the date column converted: the rows in order
KontoFrame(res) ==
    [r \in 1..Len(res.date) |->
        [date |-> ToDatetime(res.date[r]),
         description |-> res.description[r],
         amount |-> res.amount[r]]]

-----------------------------------------------------------------------------
(* parse_ing_depotauszug                                                   *)

\* \d{2}\.\d{2}\.\d{4} at position p
DateShapeAt(s, p) ==
    /\ p + 9 <= Len(s)
    /\ AllDigits(Sub(s, p, p + 1)) /\ Ch(s, p + 2) = "."
    /\ AllDigits(Sub(s, p + 3, p + 4)) /\ Ch(s, p + 5) = "."
    /\ AllDigits(Sub(s, p + 6, p + 9))

\* \b<label>\s+(\d{2}\.\d{2}\.\d{4})\b : group 1 of the leftmost match
LabelledDate(line, label) ==
    LET At(p) == p + Len(label) + SpaceRun(line, p + Len(label))
        ok == {p \in 1..Len(line) :
                 /\ Boundary(line, p)
                 /\ LitAt(line, p, label)
                 /\ SpaceRun(line, p + Len(label)) >= 1
                 /\ DateShapeAt(line, At(p))
                 /\ Boundary(line, At(p) + 10)}
    IN  IF ok = {} THEN NoMatch
        ELSE Match(Sub(line, At(Least(ok)), At(Least(ok)) + 9))

\* date_regex.search(line).group(1)
DepotDateRegex(line) == LabelledDate(line, "Depotauszug per")

\* position after \d+(?:,\d+)? matched greedily at p, 0 if p holds no digit
NumberEnd(s, p) ==
    LET r1 == DigitRun(s, p)
        r2 == DigitRun(s, p + r1 + 1)
    IN  IF r1 = 0 THEN 0
        ELSE IF Ch(s, p + r1) = "," /\ r2 >= 1 THEN p + r1 + 1 + r2
        ELSE p + r1

\* \s+ followed by the literal lit, at position p
SpacesThen(s, p, lit) == IsSpace(Ch(s, p)) /\ LitAt(s, p + SpaceRun(s, p), lit)

\* name_regex.search(line).group(1):  \bStück\s+([^0-9]+?)\s+\d+(?:,\d+)?
\* The first \s+ is greedy and gives back one character at a time; the
\* group is lazy.
DepotNameRegex(line) ==
    LET Ends(g0) == {e \in g0..Len(line) :
                       /\ \A q \in g0..e : ~IsDigit(Ch(line, q))
                       /\ IsSpace(Ch(line, e + 1))
                       /\ IsDigit(Ch(line, e + 1 + SpaceRun(line, e + 1)))}
        Starts(p) == {g0 \in (p + 6)..(p + 5 + SpaceRun(line, p + 5)) : Ends(g0) # {}}
        ok == {p \in 1..Len(line) :
                 Boundary(line, p) /\ LitAt(line, p, "Stück") /\ Starts(p) # {}}
    IN  IF ok = {} THEN NoMatch
        ELSE LET g0 == CHOOSE x \in Starts(Least(ok)) : \A y \in Starts(Least(ok)) : y <= x
             IN  Match(Sub(line, g0, Least(Ends(g0))))

\* isin_regex.search(line).group(1):  ISIN \(WKN\):\s+(.*?)\s+
DepotIsinRegex(line) ==
    LET After(p) == p + 11 + SpaceRun(line, p + 11)
        Spaces(p) == {x \in After(p)..Len(line) : IsSpace(Ch(line, x))}
        ok == {p \in 1..Len(line) :
                 /\ LitAt(line, p, "ISIN (WKN):")
                 /\ SpaceRun(line, p + 11) >= 1
                 /\ (Spaces(p) # {} \/ SpaceRun(line, p + 11) >= 2)}
    IN  IF ok = {} THEN NoMatch
        ELSE IF Spaces(Least(ok)) # {}
             THEN Match(Sub(line, After(Least(ok)), Least(Spaces(Least(ok))) - 1))
             ELSE Match("")

\* amount_regex.search(line).group(1):  \b(\d+(?:,\d+)?)\s+Stück\b
DepotAmountRegex(line) ==
    LET ok == {p \in 1..Len(line) :
                 /\ Boundary(line, p)
                 /\ IsDigit(Ch(line, p))
                 /\ SpacesThen(line, NumberEnd(line, p), "Stück")
                 /\ Boundary(line, NumberEnd(line, p)
                                     + SpaceRun(line, NumberEnd(line, p)) + 5)}
    IN  IF ok = {} THEN NoMatch
        ELSE Match(Sub(line, Least(ok), NumberEnd(line, Least(ok)) - 1))

\* the position after "EUR" when a match \d+(?:,\d+)?\s+EUR starts at p
EurEnd(line, p) == NumberEnd(line, p) + SpaceRun(line, NumberEnd(line, p)) + 3

\* price_regex.search(line).group(1):  (\d+(?:,\d+)?)\s+EUR(?!$)
DepotPriceRegex(line) ==
    LET ok == {p \in 1..Len(line) :
                 /\ IsDigit(Ch(line, p))
                 /\ SpacesThen(line, NumberEnd(line, p), "EUR")
                 /\ EurEnd(line, p) <= Len(line)}
    IN  IF ok = {} THEN NoMatch
        ELSE Match(Sub(line, Least(ok), NumberEnd(line, Least(ok)) - 1))

\* market_regex.search(line).group(1):  EUR\s+(.*?)\s+EUR
DepotMarketRegex(line) ==
    LET After(p) == p + 3 + SpaceRun(line, p + 3)
        Later(p) == {x \in (After(p) + 1)..Len(line) : SpacesThen(line, x, "EUR")}
        ok == {p \in 1..Len(line) :
                 /\ LitAt(line, p, "EUR")
                 /\ SpaceRun(line, p + 3) >= 1
                 /\ \/ Later(p) # {}
                    \/ SpaceRun(line, p + 3) >= 2 /\ LitAt(line, After(p), "EUR")}
    IN  IF ok = {} THEN NoMatch
        ELSE IF Later(Least(ok)) # {}
             THEN Match(Sub(line, After(Least(ok)), Least(Later(Least(ok))) - 1))
             ELSE Match("")

NoDepotResults ==
    [date |-> <<>>, name |-> <<>>, isin |-> <<>>, amount |-> <<>>,
     price |-> <<>>, market_value |-> <<>>]

\* float(...) of the market value raises ValueError on this line
DepotLineRaises(line) ==
    /\ DepotMarketRegex(line).hit
    /\ ~IsFloatLiteral(Normalize(DepotMarketRegex(line).text))

\* l with x appended if the search hit
AppendIf(l, m, x) == IF m.hit THEN Append(l, x) ELSE l

\* the body of the loop over the lines, for a line on which nothing raises
DepotLine(res, line) ==
    LET date == DepotDateRegex(line)
        name == DepotNameRegex(line)
        isin == DepotIsinRegex(line)
        amount == DepotAmountRegex(line)
        price == DepotPriceRegex(line)
        market_value == DepotMarketRegex(line)
    IN  [date |-> AppendIf(res.date, date, date.text),
         name |-> AppendIf(res.name, name, name.text),
         isin |-> AppendIf(res.isin, isin, isin.text),
         amount |-> AppendIf(res.amount, amount, PyFloat(Normalize(amount.text))),
         price |-> AppendIf(res.price, price, PyFloat(Normalize(price.text))),
         market_value |-> AppendIf(res.market_value, market_value,
                                   PyFloat(Normalize(market_value.text)))]

\* pd.DataFrame(results) raises ValueError: the lists differ in length
RaggedRaises(res) ==
    \E f \in DOMAIN res : \E g \in DOMAIN res : Len(res[f]) # Len(res[g])

\* pd.to_datetime(data["date"], format="%d.%m.%Y") raises ValueError
DatesRaise(res) == \E r \in 1..Len(res.date) : ~IsCalendarDate(res.date[r])

\* pd.DataFrame(results) with the date column converted: the rows in order
DepotFrame(res) ==
    [r \in 1..Len(res.date) |->
        [f \in DOMAIN res |->
            IF f = "date" THEN ToDatetime(res.date[r]) ELSE res[f][r]]]

-----------------------------------------------------------------------------
(* parse_ing_abrechnung                                                    *)

\* (?<=label)(.*?)(?=$|\n) : from the first place that follows the label to
\* the end of the line
AfterLabel(line, label) ==
    LET ok == {p \in 1..Len(line) : LitAt(line, p, label)}
    IN  IF ok = {} THEN NoMatch ELSE Match(From(line, Least(ok) + Len(label)))

\* execution_time_regex:  (?<=um\s)(\d{2}:\d{2}:\d{2})(?=\s*Uhr)
ExecutionTimeRegex(line) ==
    LET ok == {p \in 4..Len(line) :
                 /\ LitAt(line, p - 3, "um")
                 /\ IsSpace(Ch(line, p - 1))
                 /\ p + 7 <= Len(line)
                 /\ AllDigits(Sub(line, p, p + 1)) /\ Ch(line, p + 2) = ":"
                 /\ AllDigits(Sub(line, p + 3, p + 4)) /\ Ch(line, p + 5) = ":"
                 /\ AllDigits(Sub(line, p + 6, p + 7))
                 /\ LitAt(line, p + 8 + SpaceRun(line, p + 8), "Uhr")}
    IN  IF ok = {} THEN NoMatch ELSE Match(Sub(line, Least(ok), Least(ok) + 7))

NoTradeResults ==
    [date |-> <<>>, name |-> <<>>, isin |-> <<>>, order_type |-> <<>>,
     order_number |-> <<>>, trading_venue |-> <<>>, execution_time |-> <<>>,
     amount |-> <<>>, price |-> <<>>, total_cost |-> <<>>]

\* the body of the loop over the lines
TradeLine(res, line) ==
    LET date == LabelledDate(line, "Datum:")
        name == AfterLabel(line, "Wertpapierbezeichnung ")
        isin == AfterLabel(line, "ISIN (WKN) ")
        order_type == AfterLabel(line, "Wertpapierabrechnung ")
        order_number == AfterLabel(line, "Ordernummer ")
        trading_venue == AfterLabel(line, "Handelsplatz ")
        execution_time == ExecutionTimeRegex(line)
        amount == AfterLabel(line, "Nominale Stück ")
        price == AfterLabel(line, "Kurs (Festpreisgeschäft) EUR ")
        total_cost == AfterLabel(line, "Endbetrag zu Ihren Lasten EUR ")
    IN  [date |-> AppendIf(res.date, date, date.text),
         name |-> AppendIf(res.name, name, name.text),
         isin |-> AppendIf(res.isin, isin, isin.text),
         order_type |-> AppendIf(res.order_type, order_type, order_type.text),
         order_number |-> AppendIf(res.order_number, order_number, order_number.text),
         trading_venue |-> AppendIf(res.trading_venue, trading_venue, trading_venue.text),
         execution_time |-> AppendIf(res.execution_time, execution_time,
                                     execution_time.text),
         amount |-> AppendIf(res.amount, amount, amount.text),
         price |-> AppendIf(res.price, price, Normalize(price.text)),
         total_cost |-> AppendIf(res.total_cost, total_cost, Normalize(total_cost.text))]

-----------------------------------------------------------------------------
(* The extractors as functions of the document's lines.  The lines of all  *)
(* pages, each page split on "\n", are scanned in order.  The result is    *)
(* [raised, data]: the exception raised ("" if none) and the DataFrame.    *)

RECURSIVE KontoScanAll(_, _)
KontoScanAll(res, ls) ==
    IF ls = <<>> THEN res ELSE KontoScanAll(KontoLine(res, Head(ls)), Tail(ls))

KontoFinish(res) ==
    IF DatesRaise(res) THEN [raised |-> "ValueError", data |-> <<>>]
    ELSE [raised |-> "", data |-> KontoFrame(res)]

ParseKontoauszug(ls) == KontoFinish(KontoScanAll(NoResults, ls))

RECURSIVE DepotScanAll(_, _)
DepotScanAll(res, ls) ==
    IF ls = <<>> THEN res ELSE DepotScanAll(DepotLine(res, Head(ls)), Tail(ls))

FrameFinish(res) ==
    IF RaggedRaises(res) \/ DatesRaise(res)
    THEN [raised |-> "ValueError", data |-> <<>>]
    ELSE [raised |-> "", data |-> DepotFrame(res)]

ParseDepotauszug(ls) ==
    IF \E n \in 1..Len(ls) : DepotLineRaises(ls[n])
    THEN [raised |-> "ValueError", data |-> <<>>]
    ELSE FrameFinish(DepotScanAll(NoDepotResults, ls))

RECURSIVE TradeScanAll(_, _)
TradeScanAll(res, ls) ==
    IF ls = <<>> THEN res ELSE TradeScanAll(TradeLine(res, Head(ls)), Tail(ls))

ParseAbrechnung(ls) == FrameFinish(TradeScanAll(NoTradeResults, ls))

-----------------------------------------------------------------------------
(* Bounds and inputs                                                       *)

MaxLines == 2

MaxDepotLines == 3

MaxGroups == 4

\* tuples over S of length at most n
SeqsUpTo(S, n) == UNION {[1..m -> S] : m \in 0..n}

\* lines of an account statement: a date, a text, an amount, each well-formed
\* or not
KontoLineSet ==
    {d \o t \o a :
        d \in {"01.01.2023", "15.03.2023", "31.02.2023", "29.02.2024",
               "32.01.2023", "Saldo"},
        t \in {" Grocery Store ", " Refund\t", " ", ""},
        a \in {"12,50", "-3,00", "1.234,56", "12.50", "3,00 "}}

\* lines of a depot statement
DepotLineSet ==
    {"Depotauszug per 31.12.2023",
     "Depotauszug per 31.02.2023",
     "10 Stück Foo Fund 12,50 EUR 125,00 EUR",
     "2,5 Stück Bar 1.234,56 EUR 3.086,40 EUR",
     "ISIN (WKN): DE0001 (A0B1)",
     "Stück Foo 12",
     "Gesamt 125,00 EUR",
     "Gesamt 125,00 EUR ",
     "Kurs 12,50 EUR je Anteil",
     "EUR siehe EUR",
     "Seite 1"}

\* the texts of ss, each preceded by sep
RECURSIVE Join(_, _)
Join(ss, sep) ==
    IF ss = <<>> THEN "" ELSE sep \o Head(ss) \o Join(Tail(ss), sep)

\* amount texts: a sign, one to three digits, groups of three digits set off
\* by "." or not, and two decimals
AmountTextSet ==
    {sign \o lead \o Join(groups, sep) \o "," \o cents :
        sign \in {"", "-"},
        lead \in {"1", "12", "999"},
        groups \in SeqsUpTo({"234", "999"}, MaxGroups),
        sep \in {".", ""},
        cents \in {"00", "56", "99"}}

-----------------------------------------------------------------------------
(* The extractors step by step                                             *)

Idle ==
    /\ path = [kind |-> "none"] /\ account = "" /\ mpc = "idle" /\ entry = 0
    /\ df = <<>> /\ called = <<>> /\ stdout = <<>> /\ stderr = <<>>
    /\ csv = <<>> /\ status = "idle"

InitKonto ==
    /\ lines \in SeqsUpTo(KontoLineSet, MaxLines)
    /\ lineNo = 1 /\ results = NoResults /\ pc = "scan" /\ data = <<>> /\ exc = ""
    /\ Idle

InitAmount ==
    /\ lines \in {<<"01.01.2023 Miete " \o a>> : a \in AmountTextSet}
    /\ lineNo = 1 /\ results = NoResults /\ pc = "scan" /\ data = <<>> /\ exc = ""
    /\ Idle

InitDepot ==
    /\ lines \in SeqsUpTo(DepotLineSet, MaxDepotLines)
    /\ lineNo = 1 /\ results = NoDepotResults /\ pc = "scan" /\ data = <<>> /\ exc = ""
    /\ Idle

\* one pass of the loop of parse_ing_kontoauszug
KontoScan ==
    /\ pc = "scan" /\ lineNo <= Len(lines)
    /\ results' = KontoLine(results, lines[lineNo])
    /\ lineNo' = lineNo + 1
    /\ UNCHANGED <<lines, pc, data, exc>>
    /\ UNCHANGED programVars

\* after the loop: the DataFrame is built, the dates are converted
KontoReturn ==
    /\ pc = "scan" /\ lineNo > Len(lines)
    /\ pc' = IF KontoFinish(results).raised = "" THEN "returned" ELSE "raised"
    /\ exc' = KontoFinish(results).raised
    /\ data' = KontoFinish(results).data
    /\ UNCHANGED <<lines, lineNo, results>>
    /\ UNCHANGED programVars

\* one pass of the loop of parse_ing_depotauszug
DepotScan ==
    /\ pc = "scan" /\ lineNo <= Len(lines)
    /\ IF DepotLineRaises(lines[lineNo])
       THEN /\ pc' = "raised"
            /\ exc' = "ValueError"
            /\ UNCHANGED <<results, lineNo>>
       ELSE /\ results' = DepotLine(results, lines[lineNo])
            /\ lineNo' = lineNo + 1
            /\ UNCHANGED <<pc, exc>>
    /\ UNCHANGED <<lines, data>>
    /\ UNCHANGED programVars

\* after the loop: the DataFrame is built, the dates are converted
DepotReturn ==
    /\ pc = "scan" /\ lineNo > Len(lines)
    /\ pc' = IF FrameFinish(results).raised = "" THEN "returned" ELSE "raised"
    /\ exc' = FrameFinish(results).raised
    /\ data' = FrameFinish(results).data
    /\ UNCHANGED <<lines, lineNo, results>>
    /\ UNCHANGED programVars

NextKonto == KontoScan \/ KontoReturn

NextDepot == DepotScan \/ DepotReturn

SpecKonto == InitKonto /\ [][NextKonto]_vars

SpecAmount == InitAmount /\ [][NextKonto]_vars

SpecDepot == InitDepot /\ [][NextDepot]_vars

-----------------------------------------------------------------------------
(* The program: the __main__ block                                         *)

MaxFiles == 2

\* Path.suffix: the name from its last "." on, if that is not its first or
\* last character
Suffix(name) ==
    LET dots == {p \in 2..(Len(name) - 1) : Ch(name, p) = "."}
    IN  IF dots = {} \/ Ch(name, Len(name)) = "." THEN ""
        ELSE From(name, CHOOSE p \in dots : \A q \in dots : q <= p)

\* the names path.glob("*.pdf") yields
GlobPdf(name) == Len(name) >= 4 /\ From(name, Len(name) - 3) = ".pdf"

\* the directory entries path.glob("*.pdf") yields, in enumeration order
RECURSIVE Globbed(_)
Globbed(files) ==
    IF files = <<>> THEN <<>>
    ELSE (IF GlobPdf(Head(files).name) THEN <<Head(files)>> ELSE <<>>)
           \o Globbed(Tail(files))

\* a slip: the --account value is compared as typed
DirSelectsAsTyped(name, acc) ==
    Contains(Lower(name), "kontoauszug") /\ Contains(Lower(name), acc)

\* ("kontoauszug" in file.name.lower()) and (args.account.lower() in file.name.lower())
DirSelects(name, acc) ==
    Contains(Lower(name), "kontoauszug") /\ Contains(Lower(name), Lower(acc))

NoFile == [written |-> FALSE, rows |-> <<>>]

EmptyList == [type |-> "list", items |-> <<>>]

Frame(rows) == [type |-> "frame", rows |-> rows]

\* the sequence s without its j-th element
Without(s, j) == SubSeq(s, 1, j - 1) \o SubSeq(s, j + 1, Len(s))

\* a slip: ascending order
RECURSIVE SortValuesAscending(_)
SortValuesAscending(rows) ==
    IF rows = <<>> THEN {<<>>}
    ELSE UNION {{<<rows[j]>> \o rest : rest \in SortValuesAscending(Without(rows, j))} :
                  j \in {h \in 1..Len(rows) :
                           \A g \in 1..Len(rows) : rows[g].date >= rows[h].date}}

\* df.sort_values("date", ascending=False): the default sort is not stable,
\* so rows of equal date come in any order
RECURSIVE SortValues(_)
SortValues(rows) ==
    IF rows = <<>> THEN {<<>>}
    ELSE UNION {{<<rows[j]>> \o rest : rest \in SortValues(Without(rows, j))} :
                  j \in {h \in 1..Len(rows) :
                           \A g \in 1..Len(rows) : rows[g].date <= rows[h].date}}

\* pd.concat(frames) of a non-empty list: the rows of the frames in order
RECURSIVE ConcatFrames(_)
ConcatFrames(frames) ==
    IF frames = <<>> THEN <<>> ELSE Head(frames) \o ConcatFrames(Tail(frames))

NotRecognized(name) == name \o " is not a recognized format!"

UnableToParse == "The system was unable to parse the input"

\* documents: account statements, depot statements, trade confirmations
KontoDocs ==
    {<<>>,
     <<"01.01.2023 Grocery Store 12,50", "15.03.2023 Refund -3,00">>,
     <<"15.03.2023 Miete -700,00">>,
     <<"31.02.2023 Miete -700,00">>,
     <<"Neuer Saldo 1.234,56 EUR">>}

DepotDocs ==
    {<<"Depotauszug per 31.12.2023",
       "10 Stück Foo Fund 12,50 EUR 125,00 EUR",
       "ISIN (WKN): DE0001 (A0B1)">>,
     <<"Stück Foo 12", "ISIN (WKN): DE0001 (A0B1)">>}

TradeDocs ==
    {<<"Wertpapierabrechnung Kauf",
       "Datum: 02.01.2023",
       "Ordernummer 123.001",
       "ISIN (WKN) DE0001 (A0B1)",
       "Wertpapierbezeichnung Foo Fund",
       "Nominale Stück 10",
       "Handelsplatz Direktgeschäft",
       "Kurs (Festpreisgeschäft) EUR 12,50",
       "Ausführung am 02.01.2023 um 09:04:11 Uhr",
       "Endbetrag zu Ihren Lasten EUR 1.125,00">>,
     <<"Wertpapierabrechnung Kauf", "Datum: 02.01.2023">>}

FileNames ==
    {"statement.pdf", "Kontoauszug_Giro_01.pdf", "Depotauszug_2023.pdf",
     "Abrechnung_Kauf.pdf", "kontoauszug_abrechnung.pdf", "kontoauszug_giro.txt"}

DirNames ==
    {"Kontoauszug_Giro_01.pdf", "kontoauszug_giro_EXTRA_02.pdf",
     "Kontoauszug_Extra_03.pdf", "Depotauszug_Giro.pdf", "kontoauszug_giro.txt"}

Accounts == {"giro", "Extra"}

DirEntries == [name : DirNames, doc : KontoDocs \ {<<"Neuer Saldo 1.234,56 EUR">>}]

\* a directory holds no two files of one name
Directories ==
    {d \in SeqsUpTo(DirEntries, MaxFiles) :
        \A a \in 1..Len(d) : \A b \in 1..Len(d) : a # b => d[a].name # d[b].name}

Paths ==
    [kind : {"file"}, name : FileNames, doc : KontoDocs \cup DepotDocs \cup TradeDocs]
      \cup [kind : {"dir"}, files : Directories]
      \cup {[kind |-> "missing"]}

Init ==
    /\ path \in Paths
    /\ account \in Accounts
    /\ path.kind # "dir" => account = "giro"
    /\ mpc = "start" /\ entry = 1 /\ df = EmptyList /\ called = <<>>
    /\ stdout = <<>> /\ stderr = <<>> /\ csv = NoFile /\ status = "running"
    /\ lines = <<>> /\ lineNo = 0 /\ results = <<>> /\ pc = "idle" /\ data = <<>>
    /\ exc = ""

IsPdfFile == path.kind = "file" /\ Suffix(path.name) = ".pdf"

\* the call  df = parse(Path(args.path))  : df is bound, or the exception
\* ends the program
CallParser(fn, parsed, next) ==
    /\ called' = Append(called, [fn |-> fn, name |-> path.name])
    /\ IF parsed.raised # ""
       THEN /\ status' = parsed.raised
            /\ mpc' = "done"
            /\ UNCHANGED <<df, stdout>>
       ELSE /\ df' = Frame(parsed.data)
            /\ stdout' = IF fn = "parse_ing_kontoauszug" THEN stdout
                         ELSE Append(stdout, "data")
            /\ mpc' = next
            /\ UNCHANGED status

\* if path.is_file() and path.suffix == ".pdf":  if 'kontoauszug' in ...
MainKonto ==
    /\ mpc = "start" /\ IsPdfFile
    /\ IF Contains(Lower(path.name), "kontoauszug")
       THEN CallParser("parse_ing_kontoauszug", ParseKontoauszug(path.doc), "depot")
       ELSE mpc' = "depot" /\ UNCHANGED <<df, called, stdout, status>>
    /\ UNCHANGED <<path, account, entry, stderr, csv>>
    /\ UNCHANGED extractorVars

\* if 'depotauszug' in path.name.lower():
MainDepot ==
    /\ mpc = "depot"
    /\ IF Contains(Lower(path.name), "depotauszug")
       THEN CallParser("parse_ing_depotauszug", ParseDepotauszug(path.doc), "trade")
       ELSE mpc' = "trade" /\ UNCHANGED <<df, called, stdout, status>>
    /\ UNCHANGED <<path, account, entry, stderr, csv>>
    /\ UNCHANGED extractorVars

\* if 'abrechnung' in path.name.lower(): ... else: print(...)
MainTrade ==
    /\ mpc = "trade"
    /\ IF Contains(Lower(path.name), "abrechnung")
       THEN CallParser("parse_ing_abrechnung", ParseAbrechnung(path.doc), "output")
       ELSE /\ stdout' = Append(stdout, NotRecognized(path.name))
            /\ mpc' = "output"
            /\ UNCHANGED <<df, called, status>>
    /\ UNCHANGED <<path, account, entry, stderr, csv>>
    /\ UNCHANGED extractorVars

\* elif path.is_dir(): one pass of  for file in path.glob("*.pdf")
MainDirVisit ==
    /\ mpc = "start" /\ path.kind = "dir"
    /\ entry <= Len(Globbed(path.files))
    /\ LET file == Globbed(path.files)[entry]
           parsed == ParseKontoauszug(file.doc)
       IN  IF DirSelects(file.name, account)
           THEN /\ called' = Append(called, [fn |-> "parse_ing_kontoauszug",
                                             name |-> file.name])
                /\ IF parsed.raised # ""
                   THEN status' = parsed.raised /\ mpc' = "done" /\ UNCHANGED df
                   ELSE /\ df' = [df EXCEPT !.items = Append(@, parsed.data)]
                        /\ UNCHANGED <<status, mpc>>
           ELSE UNCHANGED <<called, df, status, mpc>>
    /\ entry' = entry + 1
    /\ UNCHANGED <<path, account, stdout, stderr, csv>>
    /\ UNCHANGED extractorVars

\* df = pd.concat(df) after the loop: ValueError on an empty list
MainConcat ==
    /\ mpc = "start" /\ path.kind = "dir"
    /\ entry > Len(Globbed(path.files))
    /\ IF df.items = <<>>
       THEN status' = "ValueError" /\ mpc' = "done" /\ UNCHANGED df
       ELSE df' = Frame(ConcatFrames(df.items)) /\ mpc' = "output" /\ UNCHANGED status
    /\ UNCHANGED <<path, account, entry, called, stdout, stderr, csv>>
    /\ UNCHANGED extractorVars

\* else: print(f"Invalid input: {path}", file=stderr); exit(1)
MainInvalid ==
    /\ mpc = "start" /\ ~IsPdfFile /\ path.kind # "dir"
    /\ stderr' = Append(stderr, "Invalid input")
    /\ status' = "exit1"
    /\ mpc' = "done"
    /\ UNCHANGED <<path, account, entry, df, called, stdout, csv>>
    /\ UNCHANGED extractorVars

\* if not df.empty: sort and write, else: print(...)
\* A list has no attribute empty: AttributeError.
MainOutput ==
    /\ mpc = "output"
    /\ \/ /\ df.type = "list"
          /\ status' = "AttributeError"
          /\ UNCHANGED <<csv, stdout>>
       \/ /\ df.type = "frame" /\ df.rows # <<>>
          /\ \E sorted \in SortValues(df.rows) :
                csv' = [written |-> TRUE, rows |-> sorted]
          /\ status' = "exit0"
          /\ UNCHANGED stdout
       \/ /\ df.type = "frame" /\ df.rows = <<>>
          /\ stdout' = Append(stdout, UnableToParse)
          /\ status' = "exit0"
          /\ UNCHANGED csv
    /\ mpc' = "done"
    /\ UNCHANGED <<path, account, entry, df, called, stderr>>
    /\ UNCHANGED extractorVars

Next ==
    \/ MainKonto
    \/ MainDepot
    \/ MainTrade
    \/ MainDirVisit
    \/ MainConcat
    \/ MainInvalid
    \/ MainOutput

Spec == Init /\ [][Next]_vars

-----------------------------------------------------------------------------
(* What the claims speak of                                                *)

\* the characters of s that are digits
RECURSIVE OnlyDigits(_)
OnlyDigits(s) ==
    IF s = "" THEN ""
    ELSE (IF IsDigit(Ch(s, 1)) THEN Ch(s, 1) ELSE "") \o OnlyDigits(From(s, 2))

\* a \div 2^n, twelve binary places at a time
RECURSIVE BigShr(_, _)
BigShr(a, n) ==
    IF n >= 12 THEN BigShr(BigDivMod(a, 4096).q, n - 12) ELSE BigDivMod(a, 2 ^ n).q

\* a double's value in cents, rounded to the nearest cent
DoubleCents(f) ==
    IF f.exp >= 0 THEN BigShl(BigMul(f.mant, 100), f.exp)
    ELSE BigShr(BigAdd(BigMul(f.mant, 100), BigShl(<<1>>, -f.exp - 1)), -f.exp)

\* the double f is the signed decimal the amount text t denotes
DenotesAmount(f, t) ==
    /\ DoubleCents(f) = BigOfDigits(OnlyDigits(t))
    /\ f.neg = (Ch(t, 1) = "-")

\* the longest amount text the line ends with, "" if there is none
TrailingAmount(line) ==
    LET ok == {n \in 1..Len(line) : IsAmountText(From(line, Len(line) - n + 1))}
    IN  IF ok = {} THEN ""
        ELSE From(line, Len(line) - (CHOOSE n \in ok : \A h \in ok : h <= n) + 1)

\* the line starts with a DD.MM.YYYY date of the calendar, 19xx or 20xx
StartsWithDate(line) ==
    /\ Len(line) >= 10
    /\ IsCalendarDate(Sub(line, 1, 10))
    /\ Sub(line, 7, 8) \in {"19", "20"}

IsTransactionLine(line) == StartsWithDate(line) /\ TrailingAmount(line) # ""

\* the lines of ls that are transactions, in order
TransactionLines(ls) == SelectSeq(ls, IsTransactionLine)

\* row r is the transaction line holds
IsTransactionOf(r, line) ==
    /\ r.date = ToDatetime(Sub(line, 1, 10))
    /\ r.description
         = Strip(Sub(line, 11, Len(line) - Len(TrailingAmount(line))))
    /\ DenotesAmount(r.amount, TrailingAmount(line))

\* word occurs in name, letter case ignored
ContainsIgnoreCase(name, word) ==
    \E p \in 1..(Len(name) + 1) :
        /\ p + Len(word) - 1 <= Len(name)
        /\ Lower(Sub(name, p, p + Len(word) - 1)) = Lower(word)

Keywords == {"kontoauszug", "depotauszug", "abrechnung"}

KeywordsIn(name) == {w \in Keywords : ContainsIgnoreCase(name, w)}

\* how often x occurs in the sequence s
Count(x, s) == Cardinality({j \in 1..Len(s) : s[j] = x})

SameBag(s, t) ==
    /\ Len(s) = Len(t)
    /\ \A j \in 1..Len(s) : Count(s[j], s) = Count(s[j], t)

\* C1: parse_ing_kontoauszug yields exactly one transaction per line that
\* starts with a valid date and ends with an amount, in line order, holding
\* that date, that amount and the trimmed text between them; other lines
\* yield nothing.
C1_OneTransactionPerLine ==
    /\ pc = "returned" =>
          /\ Len(data) = Len(TransactionLines(lines))
          /\ \A r \in 1..Len(data) :
                IsTransactionOf(data[r], TransactionLines(lines)[r])
    /\ pc = "raised" => TransactionLines(lines) = <<>>

\* C7: parse_ing_kontoauszug never raises, whatever the lines are.
C7_NeverRaises == pc # "raised"

\* C8 as stated: every amount text the pattern accepts is normalised to the
\* exact signed decimal it denotes.
C8_ExactEveryAmount ==
    \A r \in 1..Len(results.amount) :
        DenotesAmount(results.amount[r], KontoAmountRegex(lines[r]).text)

\* C8 as amended: every amount text of at most 15 digits is normalised to
\* the signed decimal it denotes, to the cent, the sign kept.
C8_ExactUpTo15Digits ==
    \A r \in 1..Len(results.amount) :
        Len(OnlyDigits(KontoAmountRegex(lines[r]).text)) <= 15
          => DenotesAmount(results.amount[r], KontoAmountRegex(lines[r]).text)

C8_Witness ==
    /\ pc = "returned"
    /\ KontoAmountRegex(lines[1]).text = "-1.234.999.234.999,56"
    /\ Len(data) = 1
    /\ data[1].amount.neg

\* the number of lines of ls on which Hit holds
HitCount(Hit(_), ls) == Len(SelectSeq(ls, Hit))

DateHit(line) == DepotDateRegex(line).hit
NameHit(line) == DepotNameRegex(line).hit
IsinHit(line) == DepotIsinRegex(line).hit
AmountHit(line) == DepotAmountRegex(line).hit
PriceHit(line) == DepotPriceRegex(line).hit
MarketHit(line) == DepotMarketRegex(line).hit

\* C2: parse_ing_depotauszug returns a table whose six sequences each hold
\* one value per line matched by that field's pattern, with no padding and
\* no error, also when the sequences differ in length.  (Documents with a
\* market value that is no number, or a date that is no day of the
\* calendar, are left aside: they raise for another reason.)
C2_RaggedTableReturned ==
    (/\ pc \in {"returned", "raised"}
     /\ \A n \in 1..Len(lines) : ~DepotLineRaises(lines[n])
     /\ ~DatesRaise(results))
    => /\ pc = "returned"
       /\ Len(results.date) = HitCount(DateHit, lines)
       /\ Len(results.name) = HitCount(NameHit, lines)
       /\ Len(results.isin) = HitCount(IsinHit, lines)
       /\ Len(results.amount) = HitCount(AmountHit, lines)
       /\ Len(results.price) = HitCount(PriceHit, lines)
       /\ Len(results.market_value) = HitCount(MarketHit, lines)

\* the line has a quantity immediately followed by "EUR", and that "EUR" is
\* not the last token of the line
HasPricedQuantity(line) ==
    \E p \in 1..Len(line) :
        /\ IsDigit(Ch(line, p))
        /\ SpacesThen(line, NumberEnd(line, p), "EUR")
        /\ EurEnd(line, p) <= Len(RStrip(line))

\* C10: a line adds a price if and only if it has a quantity immediately
\* followed by an "EUR" that is not the line's last token (trailing
\* whitespace or not), and it adds at most one.
C10_PriceIffNotLastToken ==
    pc = "scan" =>
        Len(results.price)
          = HitCount(HasPricedQuantity, SubSeq(lines, 1, lineNo - 1))

\* the PDF file given names no layout
Unrecognized == IsPdfFile /\ KeywordsIn(path.name) = {}

\* C3: a single PDF file whose name holds no keyword: no extractor is
\* called, the diagnostic is printed, no file is written, and the program
\* ends without an exception.
C3_UnrecognizedEndsQuietly ==
    (mpc = "done" /\ Unrecognized)
    => /\ called = <<>>
       /\ \E n \in 1..Len(stdout) : stdout[n] = NotRecognized(path.name)
       /\ ~csv.written
       /\ status = "exit0"

ExtractorOf(w) ==
    CASE w = "kontoauszug" -> "parse_ing_kontoauszug"
      [] w = "depotauszug" -> "parse_ing_depotauszug"
      [] w = "abrechnung" -> "parse_ing_abrechnung"

TableOf(w, doc) ==
    CASE w = "kontoauszug" -> ParseKontoauszug(doc)
      [] w = "depotauszug" -> ParseDepotauszug(doc)
      [] w = "abrechnung" -> ParseAbrechnung(doc)

\* C4: a single PDF file is routed by the keyword its name holds, letter
\* case ignored: the mapped extractor alone is called and its table is the
\* one written; the "not a recognized format" diagnostic appears only for
\* names that hold no keyword.
C4_RoutedByKeyword ==
    (mpc = "done" /\ IsPdfFile)
    => /\ (\E n \in 1..Len(stdout) : stdout[n] = NotRecognized(path.name))
            => KeywordsIn(path.name) = {}
       /\ \A w \in Keywords :
            KeywordsIn(path.name) = {w}
              => /\ called = <<[fn |-> ExtractorOf(w), name |-> path.name]>>
                 /\ csv.written => SameBag(csv.rows, TableOf(w, path.doc).data)

\* what the claim says of directory mode: the file is parsed exactly when
\* its name holds "kontoauszug" and the --account value, case ignored
Selected(name) ==
    ContainsIgnoreCase(name, "kontoauszug") /\ ContainsIgnoreCase(name, account)

SelectedEntry(f) == Selected(f.name)

\* the rows of the listed files' tables, in order
RECURSIVE RowsOf(_)
RowsOf(files) ==
    IF files = <<>> THEN <<>>
    ELSE ParseKontoauszug(Head(files).doc).data \o RowsOf(Tail(files))

\* the names of the files an extractor was called on, in order
CalledNames == [n \in 1..Len(called) |-> called[n].name]

NamesOf(files) == [n \in 1..Len(files) |-> files[n].name]

\* the *.pdf entries of the directory the loop has reached so far
Visited == SubSeq(Globbed(path.files), 1, entry - 1)

EmptyResult ==
    \/ /\ path.kind = "dir"
       /\ \A n \in 1..Len(path.files) :
             (GlobPdf(path.files[n].name) /\ Selected(path.files[n].name))
               => ParseKontoauszug(path.files[n].doc) = [raised |-> "", data |-> <<>>]
    \/ /\ IsPdfFile
       /\ \E w \in Keywords :
             /\ KeywordsIn(path.name) = {w}
             /\ TableOf(w, path.doc) = [raised |-> "", data |-> <<>>]

\* C6: when no record is extracted the program prints the message, writes
\* no file and ends without an exception or a non-zero exit.
C6_EmptyResultReported ==
    (mpc = "done" /\ EmptyResult)
    => /\ \E n \in 1..Len(stdout) : stdout[n] = UnableToParse
       /\ ~csv.written
       /\ status = "exit0"

\* C9: in directory mode the table written holds every transaction of
\* every selected file exactly once and is ordered by date, latest first.
C9_MergedAndSorted ==
    (path.kind = "dir" /\ csv.written)
    => /\ SameBag(csv.rows, RowsOf(SelectSeq(Globbed(path.files), SelectedEntry)))
       /\ \A r \in 1..(Len(csv.rows) - 1) : csv.rows[r].date >= csv.rows[r + 1].date

C9_Witness ==
    /\ path.kind = "dir" /\ csv.written /\ Len(called) = 2
    /\ Len(csv.rows) = 3
    /\ csv.rows # df.rows
    /\ csv.rows[1].date = csv.rows[2].date

====
